---- MODULE Spec2Model ----
(***************************************************************************)
(* Model of redux-typescripted-ii: the action creators of action.utils.ts, *)
(* the object reducer of reducer.utils.ts and the counter slice built on   *)
(* them (counter.actions.ts, counter.reducer.ts, store/index.ts).          *)
(*                                                                         *)
(* JavaScript values are records [kind, n]; a message is a record whose    *)
(* DOMAIN is the set of its own properties, so that {type} and             *)
(* {type, meta: undefined} are different messages, as they are for         *)
(* Object.keys, the `in` operator and deep equality.                       *)
(***************************************************************************)
EXTENDS Integers, Sequences, FiniteSets, TLC

VARIABLES
    built,          \* "none" | "ok" | "rejected": outcome of the createReducer call
    cases,          \* the cases table handed to createReducer: tag -> handler
    fresh,          \* whether the table was written as an object literal in the call
    initialState,   \* the initialState argument captured by the reducer's closure
    store,          \* "none" | "created": createStore(rootReducer) has run
    state,          \* the store's counter slice (store.getState().counter)
    msg,            \* the message produced by the latest creator invocation
    last,           \* observation of the latest reducer call
    memo,           \* a remembered creator invocation and the message it produced
    again,          \* the message produced when the remembered invocation was repeated
    scn,            \* how many steps of the documented counter scenario just ran
    registry,       \* the registry object: kind name -> creator
    client,         \* the latest operation of client code on the registry
    clicks,         \* button clicks since the store was created
    cmp,            \* the latest direct call of the two counter reducers
    props           \* the dispatch props handed to the connected component

\* The variables only the registry, the component and the comparison use.
aux == <<registry, client, clicks, cmp, props>>

vars == <<built, cases, fresh, initialState, store, state, msg, last, memo, again, scn,
          registry, client, clicks, cmp, props>>

---------------------------------------------------------------------------
(* Bounds of the model *)

\* Numbers of the store stay within -MaxAbs .. MaxAbs.
MaxAbs == 5

\* The initialState arguments tried for a reducer other than the counter's
\* are 0 .. MaxInit.
MaxInit == 1

\* Client code performs at most MaxClientOps statements on the registry.
MaxClientOps == 2

\* At most MaxClicks Increment clicks and MaxClicks Decrement clicks are
\* counted between two Reset clicks.
MaxClicks == 6

---------------------------------------------------------------------------
(* JavaScript values *)

Num(n) == [kind |-> "number", n |-> n]
Undefined == [kind |-> "undefined", n |-> 0]
NaN == [kind |-> "NaN", n |-> 0]
\* The string "[object Undefined]", the result of Object.prototype.toString
\* called with an undefined receiver.
ObjectUndefinedString == [kind |-> "string", n |-> 0]
\* A value outside the modelled range: a number beyond MaxAbs, or the
\* concatenation of a string with something.
OutOfRange == [kind |-> "outOfRange", n |-> 0]
\* Some metadata object.
SomeMeta == [kind |-> "object", n |-> 0]

InRange(v) == v.kind # "outOfRange"

\* ToBoolean, as used by the conditional operator.
Truthy(v) ==
    CASE v.kind = "number" -> v.n # 0
      [] v.kind = "string" -> TRUE
      [] v.kind = "object" -> TRUE
      [] OTHER -> FALSE

\* ToNumber: undefined and the non-numeric string convert to NaN.
IsNumeric(v) == v.kind = "number"

Clamp(n) == IF n >= -MaxAbs /\ n <= MaxAbs THEN Num(n) ELSE OutOfRange

\* The binary + operator: concatenation when either operand is a string,
\* numeric addition otherwise.
Plus(a, b) ==
    IF ~InRange(a) \/ ~InRange(b) THEN OutOfRange
    ELSE IF a.kind \in {"string", "object"} \/ b.kind \in {"string", "object"} THEN OutOfRange
    ELSE IF IsNumeric(a) /\ IsNumeric(b) THEN Clamp(a.n + b.n)
    ELSE NaN

\* The binary - operator: always numeric.
Minus(a, b) ==
    IF ~InRange(a) \/ ~InRange(b) THEN OutOfRange
    ELSE IF a.kind = "object" \/ b.kind = "object" THEN OutOfRange
    ELSE IF IsNumeric(a) /\ IsNumeric(b) THEN Clamp(a.n - b.n)
    ELSE NaN

\* Reading a property of a message: an absent property reads as undefined.
Get(m, f) == IF f \in DOMAIN m THEN m[f] ELSE Undefined

---------------------------------------------------------------------------
(* action.utils.ts: the three action creator factories.  Each operator is  *)
(* the creator returned for tag `type`, applied to its call arguments; an  *)
(* omitted argument is undefined.                                          *)

\* Mutant: the creator fills missing metadata from the store's current state.
actionStamped(type, meta) ==
    [type |-> type, meta |-> IF meta = Undefined THEN state ELSE meta]

action(type, meta) == [type |-> type, meta |-> meta]

\* Mutant: the type property is the quoted word instead of the variable.
payloadActionQuoted(type, payload, meta) ==
    [type |-> "type", payload |-> payload, meta |-> meta]

payloadAction(type, payload, meta) ==
    [type |-> type, payload |-> payload, meta |-> meta]

\* Mutant: the creator builds the full literal whatever was supplied.
optionalPayloadActionPlain(type, payload, meta) ==
    [type |-> type, payload |-> payload, meta |-> meta]

optionalPayloadAction(type, payload, meta) ==
    IF payload = Undefined /\ meta = Undefined THEN [type |-> type]
    ELSE IF payload = Undefined THEN [type |-> type, meta |-> meta]
    ELSE IF meta = Undefined THEN [type |-> type, payload |-> payload]
    ELSE [type |-> type, payload |-> payload, meta |-> meta]

Makers == {"action", "payloadAction", "optionalPayloadAction"}

\* readonly(object): returns its argument; the Readonly<T> of its signature
\* exists for the type checker alone.
readonly(object) == object

\* The creator object a factory returns, Object.assign(fn, readonly({type})):
\* a function closing over `type`, with an own, writable property `type`
\* (here `prop`) copied from the literal.
MakeCreator(maker, type) ==
    [maker |-> maker, type |-> type, prop |-> readonly([type |-> type]).type]

\* Invoking the creator made by `maker` for tag `type`.  The creator made by
\* action takes the metadata as its only argument.
Creator(maker, type, payload, meta) ==
    CASE maker = "action" -> action(type, meta)
      [] maker = "payloadAction" -> payloadAction(type, payload, meta)
      [] maker = "optionalPayloadAction" -> optionalPayloadAction(type, payload, meta)

---------------------------------------------------------------------------
(* counter.actions.ts: the registry of the counter slice *)

counterActions ==
    [increment |-> [maker |-> "payloadAction", type |-> "[counter] Increment"],
     decrement |-> [maker |-> "optionalPayloadAction", type |-> "[counter] Decrement"],
     reset     |-> [maker |-> "action", type |-> "[counter] Reset"]]

\* The registry object at run time: readonly({increment: ..., ...}).
CounterRegistry ==
    readonly([k \in DOMAIN counterActions |->
                 MakeCreator(counterActions[k].maker, counterActions[k].type)])

---------------------------------------------------------------------------
(* action.utils.ts: the types derived from a registry.  A payload type is  *)
(* the set of its constituents.                                            *)

\* Action<Type, Payload>: the payload property is optional exactly when
\* undefined extends Payload.
Action(Type, Payload) ==
    [type |-> Type, payload |-> Payload, optional |-> "undefined" \in Payload]

\* The Payload each factory instantiates Action with in its cast: action
\* leaves the default (undefined), payloadAction<number> gives number,
\* optionalPayloadAction<number> gives number | undefined.
PayloadOf(maker) ==
    CASE maker = "action" -> {"undefined"}
      [] maker = "payloadAction" -> {"number"}
      [] maker = "optionalPayloadAction" -> {"number", "undefined"}

\* The return type of a creator.
ReturnType(creator) == Action(creator.type, PayloadOf(creator.maker))

\* Mutant: kinds whose payload may be undefined fall to never.
ActionsUnionRequiredOnly(Actions) ==
    {ReturnType(Actions[A]) : A \in {B \in DOMAIN Actions : ~ReturnType(Actions[B]).optional}}

\* ActionsUnion<Actions>: the mapped type takes each creator's return type,
\* rebuilt from the Type and Payload inferred from it, and indexing it with
\* keyof Actions makes the union.
ActionsUnionOf(Actions) ==
    {Action(ReturnType(Actions[A]).type, ReturnType(Actions[A]).payload) : A \in DOMAIN Actions}

\* ActionTypesUnion<ActionsUnion>: distributes over the union and takes each
\* member's type.
ActionTypesUnionOf(Union) == {A.type : A \in Union}

\* The parameter list of the creator a factory returns:
\*   (meta?), (payload, meta?), (payload?, meta?).
Parameters(maker) ==
    CASE maker = "action" -> <<[name |-> "meta", optional |-> TRUE]>>
      [] maker = "payloadAction" ->
            <<[name |-> "payload", optional |-> FALSE], [name |-> "meta", optional |-> TRUE]>>
      [] maker = "optionalPayloadAction" ->
            <<[name |-> "payload", optional |-> TRUE], [name |-> "meta", optional |-> TRUE]>>

\* Mutant: the projection keeps every kind of the registry.
ActionPropsAll(Actions, Picked) ==
    [K \in DOMAIN Actions |-> [args |-> Parameters(Actions[K].maker), result |-> "void"]]

\* ActionProps<Actions, Picked>:
\*   { [K in Picked]: Actions[K] extends (...args: infer A) => infer R
\*       ? (...args: A) => void : never }
ActionProps(Actions, Picked) ==
    [K \in Picked |-> [args |-> Parameters(Actions[K].maker), result |-> "void"]]

\* ActionTypesUnion of the registry: the tags of its kinds.
ActionTypesUnion == {counterActions[k].type : k \in DOMAIN counterActions}

\* Tags no kind of the registry carries: a foreign slice's tag, and a name
\* every object inherits from Object.prototype.
ForeignTags == {"UNKNOWN", "toString"}

\* The type of the action createStore dispatches first.
ReduxInit == "@@redux/INIT"

Tags == ActionTypesUnion \cup ForeignTags

---------------------------------------------------------------------------
(* counter.reducer.ts: the cases of the counter reducer *)

\* const initialState = 0
CounterInitialState == 0

\* Mutant: the case adds 1 instead of the payload.
incrementCaseByOne(s, a) == Plus(s, Num(1))

\* (state, action) => state + action.payload
incrementCase(s, a) == Plus(s, Get(a, "payload"))

\* Mutant: the case ignores the payload.
decrementCaseAlwaysOne(s, a) == Minus(s, Num(1))

\* (state, action) => state - (action.payload ? action.payload : 1)
decrementCase(s, a) ==
    Minus(s, IF Truthy(Get(a, "payload")) THEN Get(a, "payload") ELSE Num(1))

\* Mutant: the case returns the state it was given.
resetCaseKeep(s, a) == s

\* () => initialState
resetCase(s, a) == Num(CounterInitialState)

\* The switch-based reducer of the documentation:
\*   function counterReducer(state = initialState, action) { switch (action.type) ... }
counterReducer(stateArg, a) ==
    LET s == IF stateArg = Undefined THEN Num(CounterInitialState) ELSE stateArg
    IN  CASE a.type = counterActions.decrement.type ->
                Minus(s, IF Truthy(Get(a, "payload")) THEN Get(a, "payload") ELSE Num(1))
          [] a.type = counterActions.increment.type -> Plus(s, Get(a, "payload"))
          [] a.type = counterActions.reset.type -> Num(0)
          [] OTHER -> s

CaseFns == {"increment", "decrement", "reset"}

\* The table of the counter reducer.
CounterCases ==
    [t \in ActionTypesUnion |->
        CASE t = counterActions.increment.type -> "increment"
          [] t = counterActions.decrement.type -> "decrement"
          [] t = counterActions.reset.type -> "reset"]

---------------------------------------------------------------------------
(* reducer.utils.ts *)

\* Names every object literal inherits from Object.prototype: a method, and
\* the accessor that yields Object.prototype itself.
ObjectPrototypeKeys == {"toString", "__proto__"}

UndefinedCase == [own |-> FALSE, key |-> "", fn |-> "undefined"]

\* indexCases[action.type]: a property read, which finds the table's own
\* entry and otherwise walks the prototype chain.
Lookup(table, type) ==
    IF type \in DOMAIN table THEN [own |-> TRUE, key |-> type, fn |-> table[type]]
    ELSE IF type \in ObjectPrototypeKeys
         THEN [own |-> FALSE, key |-> type,
               fn |-> IF type = "toString" THEN "Object.prototype.toString"
                      ELSE "Object.prototype"]
    ELSE UndefinedCase

\* Whether the value found can be called; calling Object.prototype, which is
\* no function, throws a TypeError.
Callable(fn) == fn # "Object.prototype"

\* reducerCase(state, action): a plain call, so the receiver is undefined.
CallCase(fn, s, a) ==
    CASE fn = "increment" -> incrementCase(s, a)
      [] fn = "decrement" -> decrementCase(s, a)
      [] fn = "reset" -> resetCase(s, a)
      [] fn = "Object.prototype.toString" -> ObjectUndefinedString
      [] OTHER -> Undefined

\* Mutant: the case is called with the initial state instead of the state.
createReducerStale(init, table, stateArg, a) ==
    LET reducerCase == Lookup(table, a.type)
    IN  IF reducerCase # UndefinedCase
        THEN [ret |-> CallCase(reducerCase.fn, init, a), threw |-> ~Callable(reducerCase.fn),
              invoked |-> <<reducerCase>>, argState |-> init, argAction |-> a]
        ELSE [ret |-> init, threw |-> FALSE,
              invoked |-> <<>>, argState |-> init, argAction |-> a]

\* The reducer returned by createReducer(init, table), applied to
\* (stateArg, a).  The result records what was returned, which function was
\* invoked and with which arguments, and whether the call threw instead of
\* returning.
createReducer(init, table, stateArg, a) ==
    LET s == IF stateArg = Undefined THEN init ELSE stateArg
        reducerCase == Lookup(table, a.type)
    IN  IF reducerCase # UndefinedCase
        THEN [ret |-> CallCase(reducerCase.fn, s, a), threw |-> ~Callable(reducerCase.fn),
              invoked |-> <<reducerCase>>, argState |-> s, argAction |-> a]
        ELSE [ret |-> init, threw |-> FALSE,
              invoked |-> <<>>, argState |-> s, argAction |-> a]

\* Mutant: the mapped type makes every property optional.
ObjectReducerPartial(keys, isFresh) == isFresh => keys \subseteq ActionTypesUnion

\* Whether a cases argument with key set `keys` type-checks against
\* ObjectReducer<State, ActionsUnion>: the mapped type requires a property for
\* every tag of the union; a property outside the union is an error only on
\* an object literal written in the call (excess property check).
ObjectReducerAccepts(keys, isFresh) ==
    /\ ActionTypesUnion \subseteq keys
    /\ isFresh => keys \subseteq ActionTypesUnion

\* The same check against the tag union of any registry.
ObjectReducerFor(Union, keys, isFresh) ==
    /\ ActionTypesUnionOf(Union) \subseteq keys
    /\ isFresh => keys \subseteq ActionTypesUnionOf(Union)

---------------------------------------------------------------------------
(* The program as a state machine *)

NoMsg == [type |-> ""]

NoLast ==
    [set |-> FALSE, pre |-> Undefined, action |-> NoMsg, ret |-> Undefined,
     threw |-> FALSE, invoked |-> <<>>, argState |-> Undefined, argAction |-> NoMsg]

NoMemo ==
    [set |-> FALSE, maker |-> "", type |-> "", payload |-> Undefined,
     meta |-> Undefined, result |-> NoMsg]

NoClient == [op |-> "none", name |-> "", accepted |-> FALSE, n |-> 0]

NoClicks == [incs |-> 0, decs |-> 0, reset |-> FALSE]

NoProps ==
    [set |-> FALSE, picked |-> {}, entries |-> <<>>,
     called |-> [name |-> "", payload |-> Undefined]]

NoCmp ==
    [set |-> FALSE, s |-> Undefined, a |-> NoMsg, object |-> Undefined,
     switch |-> Undefined]

\* Arguments of creator invocations; Undefined is an omitted argument.  The
\* payload numbers are those of the documented scenario, and 0.
PayloadArgs == {Undefined} \cup {Num(n) : n \in {0, 1, 4, 5}}
MetaArgs == {Undefined, SomeMeta}

\* The creators that exist: the kinds of the registry, and creators made by
\* each factory for the tags of other slices.
Kinds ==
    {counterActions[k] : k \in DOMAIN counterActions}
        \cup [maker : Makers, type : ForeignTags]
        \cup {[maker |-> "action", type |-> "__proto__"]}

\* The cases tables a client may write: the counter's cases for the tags of
\* the registry it lists, and any case under any foreign key it lists.
Tables ==
    UNION {{t \in [K -> CaseFns] : \A k \in K \cap ActionTypesUnion : t[k] = CounterCases[k]}
           : K \in SUBSET Tags}

InitialStates == {Num(n) : n \in 0..MaxInit}

\* The documented scenario: increment(5), decrement(), decrement(4), reset().
Scenario ==
    <<payloadAction(counterActions.increment.type, Num(5), Undefined),
      optionalPayloadAction(counterActions.decrement.type, Undefined, Undefined),
      optionalPayloadAction(counterActions.decrement.type, Num(4), Undefined),
      action(counterActions.reset.type, Undefined)>>

Init ==
    /\ built = "none"
    /\ cases = CounterCases
    /\ fresh = TRUE
    /\ initialState = Num(CounterInitialState)
    /\ store = "none"
    /\ state = Undefined
    /\ msg = NoMsg
    /\ last = NoLast
    /\ memo = NoMemo
    /\ again = NoMsg
    /\ scn = 0
    /\ registry = CounterRegistry
    /\ client = NoClient
    /\ clicks = NoClicks
    /\ cmp = NoCmp
    /\ props = NoProps

\* createReducer(init, table), compiled: the call is rejected when the table
\* does not type-check, and otherwise yields the reducer; createReducer itself
\* checks nothing.
Build(init, table, isFresh) ==
    /\ built = "none"
    /\ built' = IF ObjectReducerAccepts(DOMAIN table, isFresh) THEN "ok" ELSE "rejected"
    /\ cases' = table
    /\ fresh' = isFresh
    /\ initialState' = init
    /\ UNCHANGED <<store, state, msg, last, memo, again, scn, aux>>

\* counter.reducer.ts: createReducer(initialState, { ... }) with the three cases.
BuildCounter == Build(Num(CounterInitialState), CounterCases, TRUE)

\* Any other call of createReducer.
BuildAny == \E init \in InitialStates, table \in Tables, isFresh \in BOOLEAN :
    Build(init, table, isFresh)

\* store/index.ts: createStore(combineReducers({counter})) dispatches the
\* init action to the reducer with an undefined state.
CreateStore ==
    /\ built = "ok"
    /\ store = "none"
    /\ LET r == createReducer(initialState, cases, Undefined, [type |-> ReduxInit])
       IN  /\ state' = r.ret
           /\ last' = [set |-> TRUE, pre |-> Undefined, action |-> [type |-> ReduxInit],
                       ret |-> r.ret, threw |-> r.threw, invoked |-> r.invoked,
                       argState |-> r.argState, argAction |-> r.argAction]
    /\ store' = "created"
    /\ UNCHANGED <<built, cases, fresh, initialState, msg, memo, again, scn, aux>>

SameCall(m, maker, type, payload, meta) ==
    /\ m.set
    /\ m.maker = maker /\ m.type = type
    /\ m.payload = payload /\ m.meta = meta

\* A creator is invoked: creator(payload, meta).
InvokeCreator ==
    \E kind \in Kinds, payload \in PayloadArgs, meta \in MetaArgs :
        /\ kind.maker = "action" => payload = Undefined
        /\ msg' = Creator(kind.maker, kind.type, payload, meta)
        /\ again' = IF SameCall(memo, kind.maker, kind.type, payload, meta)
                     THEN msg' ELSE again
        /\ last' = NoLast
        /\ UNCHANGED <<built, cases, fresh, initialState, store, state, memo, scn, aux>>

\* A creator is invoked and the invocation is remembered, to be compared with
\* a later one of the same creator with the same arguments.
Remember ==
    \E kind \in Kinds, payload \in PayloadArgs, meta \in MetaArgs :
        /\ ~memo.set
        /\ kind.maker = "action" => payload = Undefined
        /\ msg' = Creator(kind.maker, kind.type, payload, meta)
        /\ memo' = [set |-> TRUE, maker |-> kind.maker, type |-> kind.type,
                    payload |-> payload, meta |-> meta, result |-> msg']
        /\ last' = NoLast
        /\ UNCHANGED <<built, cases, fresh, initialState, store, state, again, scn, aux>>

\* Progress through the documented scenario after dispatching `a` in state `pre`.
ScenarioStep(k, pre, a) ==
    IF k < Len(Scenario) /\ a = Scenario[k + 1] /\ (k = 0 => pre = Num(0)) THEN k + 1
    ELSE IF a = Scenario[1] /\ pre = Num(0) THEN 1
    ELSE 0

\* store.dispatch(msg): the root reducer hands the counter slice and the
\* message to the reducer and stores what it returns.
Dispatch ==
    /\ store = "created"
    /\ msg # NoMsg
    /\ LET r == createReducer(initialState, cases, state, msg)
       IN  /\ InRange(r.ret)
           /\ state' = IF r.threw THEN state ELSE r.ret
           /\ last' = [set |-> TRUE, pre |-> state, action |-> msg,
                       ret |-> r.ret, threw |-> r.threw, invoked |-> r.invoked,
                       argState |-> r.argState, argAction |-> r.argAction]
    /\ scn' = ScenarioStep(scn, state, msg)
    /\ msg' = NoMsg
    /\ UNCHANGED <<built, cases, fresh, initialState, store, memo, again, aux>>

---------------------------------------------------------------------------
(* Client code working on the registry and its creators.  A statement the  *)
(* type checker rejects never runs; one it accepts runs as plain           *)
(* JavaScript on objects that were never frozen.                           *)

\* Property names of the registry object client code may touch.
RegistryNames == DOMAIN counterActions \cup {"extra"}

\* Creators of another slice.
OtherCreators == {MakeCreator(maker, "UNKNOWN") : maker \in Makers}

\* creator.type = v.  Written on the creator itself the assignment is a
\* compile error (the property is readonly); written on an alias of type
\* { type: string }, to which the creator is assignable, it compiles and
\* assigns.
AssignType ==
    \E name \in DOMAIN registry, v \in {"UNKNOWN", counterActions.reset.type},
       viaAlias \in BOOLEAN :
        /\ client.n < MaxClientOps
        /\ registry' = IF viaAlias THEN [registry EXCEPT ![name].prop = v] ELSE registry
        /\ client' = [op |-> "assign", name |-> name, accepted |-> viaAlias,
                      n |-> client.n + 1]
        /\ UNCHANGED <<built, cases, fresh, initialState, store, state, msg, last,
                       memo, again, scn, clicks, cmp, props>>

\* registry[name] = creator: replaces a kind, or adds one under a new name.
\* On the Readonly registry it is a compile error; on an alias with mutable
\* (and optional) properties it compiles and assigns.
PutKind ==
    \E name \in RegistryNames, creator \in OtherCreators, viaAlias \in BOOLEAN :
        /\ client.n < MaxClientOps
        /\ registry' = IF viaAlias
                        THEN [k \in DOMAIN registry \cup {name} |->
                                 IF k = name THEN creator ELSE registry[k]]
                        ELSE registry
        /\ client' = [op |-> "put", name |-> name, accepted |-> viaAlias,
                      n |-> client.n + 1]
        /\ UNCHANGED <<built, cases, fresh, initialState, store, state, msg, last,
                       memo, again, scn, clicks, cmp, props>>

\* delete registry[name]: a compile error on the Readonly registry, accepted
\* on an alias whose property is optional.
DeleteKind ==
    \E name \in DOMAIN registry, viaAlias \in BOOLEAN :
        /\ client.n < MaxClientOps
        /\ registry' = IF viaAlias
                        THEN [k \in DOMAIN registry \ {name} |-> registry[k]]
                        ELSE registry
        /\ client' = [op |-> "delete", name |-> name, accepted |-> viaAlias,
                      n |-> client.n + 1]
        /\ UNCHANGED <<built, cases, fresh, initialState, store, state, msg, last,
                       memo, again, scn, clicks, cmp, props>>

\* registry[name](payload, meta): the creator found under the name is invoked;
\* it builds its message from the tag it closed over.
InvokeRegistered ==
    \E name \in DOMAIN registry, payload \in PayloadArgs, meta \in MetaArgs :
        /\ registry[name].maker = "action" => payload = Undefined
        /\ msg' = Creator(registry[name].maker, registry[name].type, payload, meta)
        /\ client' = [op |-> "invoke", name |-> name, accepted |-> TRUE, n |-> client.n]
        /\ last' = NoLast
        /\ UNCHANGED <<built, cases, fresh, initialState, store, state, memo, again,
                       scn, registry, clicks, cmp, props>>

NextClient == AssignType \/ PutKind \/ DeleteKind \/ InvokeRegistered

SpecClient == Init /\ [][NextClient]_vars

---------------------------------------------------------------------------
(* Registries other than the counter's, and reducers built on them *)

\* The registries a slice may declare with the counter's names and
\* factories: any of the names, each with any of the tags, so that two kinds
\* may be given the same tag.
DeclaredRegistries ==
    UNION {[K -> ActionTypesUnion] : K \in SUBSET (DOMAIN counterActions) \ {{}}}

\* readonly({name: factory(tag), ...}) for a declaration.
RegistryFor(decl) ==
    readonly([k \in DOMAIN decl |-> MakeCreator(counterActions[k].maker, decl[k])])

InitRegistry ==
    /\ built = "none"
    /\ cases = CounterCases
    /\ fresh = TRUE
    /\ initialState = Num(CounterInitialState)
    /\ store = "none"
    /\ state = Undefined
    /\ msg = NoMsg
    /\ last = NoLast
    /\ memo = NoMemo
    /\ again = NoMsg
    /\ scn = 0
    /\ registry \in {RegistryFor(decl) : decl \in DeclaredRegistries}
    /\ client = NoClient
    /\ clicks = NoClicks
    /\ cmp = NoCmp
    /\ props = NoProps

\* createReducer<State, ActionsUnion<typeof registry>>(0, table) with the
\* counter's cases under the listed tags; neither readonly, the factories
\* nor createReducer compare the tags of the kinds.
BuildRegistry ==
    \E K \in SUBSET ActionTypesUnion, isFresh \in BOOLEAN :
        /\ built = "none"
        /\ built' = IF ObjectReducerFor(ActionsUnionOf(registry), K, isFresh)
                     THEN "ok" ELSE "rejected"
        /\ cases' = [k \in K |-> CounterCases[k]]
        /\ fresh' = isFresh
        /\ initialState' = Num(CounterInitialState)
        /\ UNCHANGED <<store, state, msg, last, memo, again, scn, aux>>

NextRegistry == BuildRegistry \/ CreateStore \/ InvokeRegistered \/ Dispatch

SpecRegistry == InitRegistry /\ [][NextRegistry]_vars

---------------------------------------------------------------------------
(* Counter.tsx: the connected component.  connect binds each entry of      *)
(* mapDispatchToProps to the store, so a prop called with arguments        *)
(* dispatches the message the creator makes of them.                       *)

\* const mapDispatchToProps: MapDispatchToProps<ActionProps<typeof
\* counterActions, Picked>, {}> = { K: counterActions[K], ... }, handed to
\* connect: the object literal type-checks only with exactly the picked keys.
Connect ==
    \E Picked \in SUBSET (DOMAIN counterActions) \ {{}} :
        /\ store = "created"
        /\ ~props.set
        /\ props' = [set |-> TRUE, picked |-> Picked,
                     entries |-> ActionProps(counterActions, Picked),
                     called |-> [name |-> "", payload |-> Undefined]]
        /\ UNCHANGED <<built, cases, fresh, initialState, store, state, msg, last,
                       memo, again, scn, registry, client, clicks, cmp>>

\* Whether a call with this payload argument and no further argument fits
\* the parameter list.
Fits(args, payload) ==
    /\ args[1].name = "payload" \/ payload = Undefined
    /\ args[1].optional \/ payload # Undefined

\* props[name](payload): the button's onClick.  The bound entry dispatches
\* the message the creator makes; its caller is handed nothing.
Click(name, payload) ==
    /\ store = "created"
    /\ props.set
    /\ name \in DOMAIN props.entries
    /\ Fits(props.entries[name].args, payload)
    /\ LET m == Creator(counterActions[name].maker, counterActions[name].type,
                        payload, Undefined)
           r == createReducer(initialState, cases, state, m)
       IN  /\ InRange(r.ret)
           /\ state' = IF r.threw THEN state ELSE r.ret
           /\ last' = [set |-> TRUE, pre |-> state, action |-> m,
                       ret |-> r.ret, threw |-> r.threw, invoked |-> r.invoked,
                       argState |-> r.argState, argAction |-> r.argAction]
           /\ scn' = ScenarioStep(scn, state, m)
    /\ msg' = NoMsg
    /\ UNCHANGED <<built, cases, fresh, initialState, store, memo, again,
                   registry, client, cmp>>
    /\ props' = [props EXCEPT !.called = [name |-> name, payload |-> payload]]

\* <button onClick={() => increment(1)}>
ClickIncrement ==
    /\ clicks.incs < MaxClicks
    /\ clicks' = [clicks EXCEPT !.incs = @ + 1]
    /\ Click("increment", Num(1))

\* <button onClick={() => decrement()}>
ClickDecrement ==
    /\ clicks.decs < MaxClicks
    /\ clicks' = [clicks EXCEPT !.decs = @ + 1]
    /\ Click("decrement", Undefined)

\* <button onClick={() => reset()}>
ClickReset ==
    /\ clicks' = [incs |-> 0, decs |-> 0, reset |-> TRUE]
    /\ Click("reset", Undefined)

NextApp == BuildCounter \/ CreateStore \/ Connect \/ ClickIncrement \/ ClickDecrement \/ ClickReset

SpecApp == Init /\ [][NextApp]_vars

---------------------------------------------------------------------------
(* The two counter reducers called side by side *)

\* State arguments of a direct call: undefined, or a number.
StateArgs == {Undefined} \cup {Num(n) : n \in -MaxAbs..MaxAbs}

\* Both reducers are called with the same state and the same message of a
\* kind of the registry.
Compare ==
    \E s \in StateArgs, name \in DOMAIN counterActions,
       payload \in PayloadArgs, meta \in MetaArgs :
        /\ built = "ok"
        /\ counterActions[name].maker = "action" => payload = Undefined
        /\ LET a == Creator(counterActions[name].maker, counterActions[name].type,
                            payload, meta)
               r == createReducer(initialState, cases, s, a)
           IN  /\ InRange(r.ret)
               /\ InRange(counterReducer(s, a))
               /\ cmp' = [set |-> TRUE, s |-> s, a |-> a, object |-> r.ret,
                          switch |-> counterReducer(s, a)]
        /\ UNCHANGED <<built, cases, fresh, initialState, store, state, msg, last,
                       memo, again, scn, registry, client, clicks, props>>

NextCompare == BuildCounter \/ Compare

SpecCompare == Init /\ [][NextCompare]_vars

Next == BuildCounter \/ BuildAny \/ CreateStore \/ InvokeCreator \/ Dispatch

Spec == Init /\ [][Next]_vars

\* The counter application alone, with one creator invocation remembered.
NextCounter == BuildCounter \/ CreateStore \/ InvokeCreator \/ Remember \/ Dispatch

SpecCounter == Init /\ [][NextCounter]_vars

---------------------------------------------------------------------------
(* Properties *)

\* The reducer is the counter reducer of counter.reducer.ts.
IsCounter ==
    /\ built = "ok"
    /\ cases = CounterCases
    /\ initialState = Num(CounterInitialState)

\* The state argument after the default parameter has been applied.
Defaulted(s) == IF s = Undefined THEN initialState ELSE s

\* C1: when the dispatched action's type is a key of the cases table, the
\* reducer invokes exactly the handler stored under that key, once, with the
\* state and the action it was given, and returns that handler's result; no
\* other function is invoked.
C1_RoutesToRegisteredHandler ==
    (last.set /\ last.action.type \in DOMAIN cases) =>
        /\ last.invoked =
              <<[own |-> TRUE, key |-> last.action.type, fn |-> cases[last.action.type]]>>
        /\ last.argState = Defaulted(last.pre)
        /\ last.argAction = last.action
        /\ last.ret = CallCase(cases[last.action.type], Defaulted(last.pre), last.action)
        /\ state = last.ret

\* C1 witness: a registered action was dispatched and its handler changed the state.
C1_Witness ==
    /\ last.set
    /\ last.action.type \in DOMAIN cases
    /\ Len(last.invoked) = 1
    /\ last.ret # last.pre

\* C2: dispatching an action whose type is not a key of the cases table
\* returns the initialState given at construction, whatever the state was.
C2_FallbackReturnsInitialState ==
    (last.set /\ last.action.type \notin DOMAIN cases) => last.ret = initialState

C4_TypeIsDeclaredTag ==
    /\ memo.set => memo.result.type = memo.type
    /\ again # NoMsg => again.type = memo.type

\* C4 witness: a creator was invoked with a payload and metadata.
C4_Witness ==
    /\ memo.set
    /\ memo.payload # Undefined
    /\ memo.meta # Undefined
    /\ again # NoMsg

\* The fields a message should carry: type, and each supplied argument.
Supplied(payload, meta) ==
    {"type"} \cup (IF payload # Undefined THEN {"payload"} ELSE {})
             \cup (IF meta # Undefined THEN {"meta"} ELSE {})

\* C5: a message made by an optionalPayloadAction creator has exactly the
\* fields type plus the supplied arguments, each holding the argument, and
\* no field holds undefined.
C5_OptionalPayloadExactFields ==
    (memo.set /\ memo.maker = "optionalPayloadAction") =>
        /\ DOMAIN memo.result = Supplied(memo.payload, memo.meta)
        /\ \A f \in DOMAIN memo.result \ {"type"} : memo.result[f] # Undefined
        /\ "payload" \in DOMAIN memo.result => memo.result.payload = memo.payload
        /\ "meta" \in DOMAIN memo.result => memo.result.meta = memo.meta

\* C5 witness: the creator was invoked with metadata and no payload.
C5_Witness ==
    /\ memo.set
    /\ memo.maker = "optionalPayloadAction"
    /\ memo.payload = Undefined
    /\ memo.meta # Undefined
    /\ DOMAIN memo.result = {"type", "meta"}

\* C6: a message made by an action creator has the fields {type}, plus meta
\* when metadata is supplied; one made by a payloadAction creator has
\* {type, payload}, plus meta when metadata is supplied.
C6_ExactFieldSets ==
    /\ (memo.set /\ memo.maker = "action") =>
            DOMAIN memo.result = Supplied(Undefined, memo.meta)
    /\ (memo.set /\ memo.maker = "payloadAction") =>
            DOMAIN memo.result = {"payload"} \cup Supplied(Undefined, memo.meta)

\* C7: with the payload omitted, an optionalPayloadAction creator produces
\* the message an action creator for the same tag produces from the same
\* metadata argument.
C7_OmittedPayloadLikeAction ==
    (memo.set /\ memo.maker = "optionalPayloadAction" /\ memo.payload = Undefined) =>
        memo.result = action(memo.type, memo.meta)

\* The messages counterActions.increment produces from a number.
IsIncrement(a) ==
    /\ a.type = counterActions.increment.type
    /\ "payload" \in DOMAIN a
    /\ IsNumeric(a.payload)

ScenarioStates == <<Num(5), Num(4), Num(0), Num(0)>>

\* C8: on the counter reducer increment(n) gives s + n and reset() gives 0
\* whatever s is; from 0, increment(5), decrement(), decrement(4), reset()
\* give 5, 4, 0, 0.
C8_IncrementResetScenario ==
    IsCounter =>
        /\ (last.set /\ IsIncrement(last.action) /\ IsNumeric(last.pre)) =>
                last.ret = Num(last.pre.n + last.action.payload.n)
        /\ (last.set /\ last.action.type = counterActions.reset.type) =>
                last.ret = Num(0)
        /\ scn > 0 => state = ScenarioStates[scn]

\* C8 witness: the whole scenario has just run.
C8_Witness == IsCounter /\ scn = 4 /\ last.set

\* C9: on the counter reducer decrement with a payload n gives s - n for
\* every number n, 0 included, and s - 1 only when the payload is absent.
C9_DecrementByPayload ==
    (IsCounter /\ last.set /\ last.action.type = counterActions.decrement.type
        /\ IsNumeric(last.pre)) =>
        IF "payload" \in DOMAIN last.action
        THEN last.ret = Num(last.pre.n - last.action.payload.n)
        ELSE last.ret = Num(last.pre.n - 1)

C11_TypePropertyFixed ==
    /\ \A name \in DOMAIN registry : registry[name].prop = registry[name].type
    /\ (client.op = "invoke" /\ client.name \in DOMAIN registry) =>
            msg.type = registry[client.name].prop

\* C12: the registry holds the kinds it was built with, under the same
\* names: none added, removed or replaced, whatever client code attempted.
C12_RegistryReadOnly ==
    /\ DOMAIN registry = DOMAIN counterActions
    /\ \A name \in DOMAIN registry :
          /\ registry[name].maker = counterActions[name].maker
          /\ registry[name].type = counterActions[name].type

\* No two kinds of the registry carry the same tag.
TagsUnique ==
    \A j, k \in DOMAIN registry : registry[j].type = registry[k].type => j = k

\* C13: a registry in which two kinds share a tag is rejected before a
\* reducer built on it is usable; no reducer runs against such a registry.
C13_DuplicateTagsRejected ==
    (built = "ok" \/ last.set) => TagsUnique

\* The payload each kind of the counter registry is documented to carry.
DocumentedPayload(name) ==
    CASE name = "increment" -> {"number"}
      [] name = "decrement" -> {"number", "undefined"}
      [] name = "reset" -> {"undefined"}

C16_UnknownTagNeverThrows ==
    (last.set /\ last.action.type \notin DOMAIN cases) => ~last.threw

\* C17: the reducer invokes only functions supplied as entries of the cases
\* table: the entry under action.type when there is one, and nothing
\* otherwise; what the table merely inherits is never invoked.
C17_OnlySuppliedCasesInvoked ==
    last.set =>
        /\ \A i \in 1..Len(last.invoked) : last.invoked[i].own
        /\ last.action.type \in DOMAIN cases =>
               last.invoked = <<[own |-> TRUE, key |-> last.action.type,
                                 fn |-> cases[last.action.type]]>>
        /\ last.action.type \notin DOMAIN cases => last.invoked = <<>>

\* C18: the counter is 0 right after store creation, and after any clicks
\* it is the number of Increment clicks minus the number of Decrement
\* clicks since the last Reset click (or since store creation).
C18_CounterIsNetClicks ==
    store = "created" => state = Num(clicks.incs - clicks.decs)

\* C18 witness: after a Reset click, Increment and Decrement clicks followed.
C18_Witness ==
    /\ store = "created"
    /\ clicks.reset
    /\ clicks.incs >= 2
    /\ clicks.decs >= 1
    /\ state = Num(clicks.incs - clicks.decs)

\* C19: on every message of a kind of the registry and every state,
\* undefined included, the object reducer and the switch-based reducer
\* return the same next state.
C19_ObjectEqualsSwitch ==
    cmp.set => cmp.object = cmp.switch

\* C19 witness: both reducers were called with an undefined state and a
\* decrement carrying a payload and metadata.
C19_Witness ==
    /\ cmp.set
    /\ cmp.s = Undefined
    /\ cmp.a.type = counterActions.decrement.type
    /\ DOMAIN cmp.a = {"type", "payload", "meta"}
    /\ cmp.object = Num(-4)

====
